---- MODULE Spec2Model ----
(***************************************************************************)
(* Model of the Pi Network relay server (src/server.js and the second     *)
(* server source, src/unnamed/part_000).                                   *)
(*                                                                         *)
(* One task per inbound HTTP request.  A task runs the Express middleware  *)
(* chain (cors, express.json, apiLimiter, the route's authenticatePiRequest*)
(* and handler) synchronously up to its first `await`, and is resumed when *)
(* the awaited upstream (axios) call settles.  The only state shared by    *)
(* tasks is the hit counter of the rate limiter.                           *)
(***************************************************************************)
EXTENDS Integers, Sequences, FiniteSets, TLC

VARIABLES
    variant,    \* which of the two server sources is running
    hits,       \* apiLimiter: requests counted in the current window (one client address)
    task        \* per request task: position, request, req.user, upstream calls, responses

vars == <<variant, hits, task>>

----------------------------------------------------------------------------
\* Bounds of the model

\* the request tasks that may be in flight at the same time
Tasks == {"t1", "t2"}

\* the task of the sequential specifications
SeqTask == "t1"

\* cap on the hits counted per window in the concurrent specification
MaxHits == 2

\* the user ids the upstream identity check may answer with
Uids == {"u1", "u2"}

\* the access tokens callers present
Tokens == {"abc"}

----------------------------------------------------------------------------
\* JavaScript values (the ones the handlers test for truthiness or type)

Undefined == [t |-> "undefined", v |-> ""]
Str(s) == [t |-> "string", v |-> s]
Num(s) == [t |-> "number", v |-> s]

\* !x
Falsy(x) ==
    \/ x.t = "undefined"
    \/ x.t = "string" /\ x.v = ""
    \/ x.t = "number" /\ x.v = "0"

\* a || b, for a message and its fallback string
OrElse(x, fallback) == IF Falsy(x) THEN fallback ELSE x.v

----------------------------------------------------------------------------
\* Program constants

\* apiLimiter: max
max == 100

\* the cap that lets the sequential specifications count one hit past max
SeqCap == max + 1

Variants == {"server.js", "part_000"}

----------------------------------------------------------------------------
\* Requests

Methods == {"GET", "POST", "OPTIONS"}

\* a path is the sequence of its segments
Paths == {
    <<"api", "balance">>, <<"api", "approve">>, <<"api", "complete">>,
    <<"api", "payment", "p1">>, <<"api", "health">>, <<"api", "nope">>, <<"nope">> }

\* an Authorization header is the sequence of its parts between single spaces;
\* <<>> is an absent header, <<"Bearer">> is the header "Bearer" with no space
AuthHeaders ==
    { <<>>, <<"Basic", "abc">>, <<"Bearer">> } \cup { <<"Bearer", tok>> : tok \in Tokens }

\* req.body after express.json: ok = FALSE when the parser raised an error
\* (malformed JSON, or an entity above the 10kb limit)
EmptyBody == [ok |-> TRUE, paymentId |-> Undefined, txid |-> Undefined]

Bodies == [ok : BOOLEAN, paymentId : {Undefined, Str("p1"), Num("7")},
           txid : {Undefined, Str("tx1")}]

NoReq == [method |-> "", path |-> <<>>, authorization |-> <<>>,
          body |-> EmptyBody, xUserUid |-> ""]

\* app.get / app.post registrations of src/server.js
RouteOfServer(method, path) ==
    IF method = "GET" /\ path = <<"api", "balance">> THEN "balance"
    ELSE IF method = "POST" /\ path = <<"api", "approve">> THEN "approve"
    ELSE IF method = "POST" /\ path = <<"api", "complete">> THEN "complete"
    ELSE IF method = "GET" /\ Len(path) = 3 /\ path[1] = "api" /\ path[2] = "payment"
        THEN "payment"
    ELSE IF method = "GET" /\ path = <<"api", "health">> THEN "health"
    ELSE "none"

\* app.get / app.post registrations of src/unnamed/part_000 (no payment details route)
RouteOfPart(method, path) ==
    IF method = "GET" /\ path = <<"api", "balance">> THEN "balance"
    ELSE IF method = "POST" /\ path = <<"api", "approve">> THEN "approve"
    ELSE IF method = "POST" /\ path = <<"api", "complete">> THEN "complete"
    ELSE IF method = "GET" /\ path = <<"api", "health">> THEN "health"
    ELSE "none"

RouteOf(v, method, path) ==
    IF v = "server.js" THEN RouteOfServer(method, path) ELSE RouteOfPart(method, path)

\* the routes registered with authenticatePiRequest in front of the handler
Protected == {"balance", "approve", "complete", "payment"}

\* the inbound requests considered: a body field is set only where the route's
\* handler reads it, a credential only on registered routes, and the caller's
\* X-User-Uid header (allowed by cors, read by no handler) on balance requests
Canonical(rq) ==
    LET route == RouteOfServer(rq.method, rq.path) IN
    /\ rq.body # EmptyBody => rq.method = "POST"
    /\ ~rq.body.ok => rq.body.paymentId = Undefined /\ rq.body.txid = Undefined
    /\ rq.body.paymentId # Undefined => route \in {"approve", "complete"}
    /\ rq.body.paymentId.t = "number" => route = "approve"
    /\ rq.body.txid # Undefined => route = "complete"
    /\ rq.xUserUid # "" <=> route = "balance"
    /\ rq.authorization # <<>> => route # "none"

Requests ==
    { rq \in [method : Methods, path : Paths, authorization : AuthHeaders,
              body : Bodies, xUserUid : Uids \cup {""}] : Canonical(rq) }

----------------------------------------------------------------------------
\* Upstream (axios) results

\* what an awaited axios call settles with: a 2xx response with its data
\* ("ok"; isNull when the data is JSON null), a non-2xx response ("err", with
\* its status and data.message) or no response at all ("neterr")
Settled(kind, status, message, isNull, uid) ==
    [kind |-> kind, status |-> status, message |-> message, isNull |-> isNull, uid |-> uid]

Pending == Settled("pending", 0, Undefined, FALSE, Undefined)
Ok(uid) == Settled("ok", 200, Undefined, FALSE, uid)
OkNull == Settled("ok", 200, Undefined, TRUE, Undefined)
NetErr == Settled("neterr", 0, Undefined, FALSE, Undefined)

UpstreamErrors ==
    { Settled("err", 401, Str("upstream says no"), FALSE, Undefined),
      Settled("err", 503, Undefined, FALSE, Undefined) }

\* GET /me
MeOutcomes == { Ok(Str(u)) : u \in Uids } \cup {Ok(Undefined), OkNull, NetErr} \cup UpstreamErrors

\* the operation calls
OpOutcomes == {Ok(Undefined), OkNull, NetErr} \cup UpstreamErrors

\* the error object a catch block receives: an axios error (error.response set
\* when the upstream answered) or a TypeError raised by reading a property of null
AxiosError(out) ==
    [hasResponse |-> out.kind = "err", status |-> out.status, message |-> out.message]

TypeError == [hasResponse |-> FALSE, status |-> 0, message |-> Undefined]

\* a catch block that does not look at the upstream status
StatusAlways500(error) == 500

\* error.response?.status || 500
StatusOr500(error) ==
    IF error.hasResponse /\ error.status # 0 THEN error.status ELSE 500

\* error.response?.data?.message
ResponseMessage(error) == IF error.hasResponse THEN error.message ELSE Undefined

----------------------------------------------------------------------------
\* Task state

NoUser == [attached |-> FALSE, uid |-> ""]

Idle == [pc |-> "idle", req |-> NoReq, user |-> NoUser, calls |-> <<>>,
         resp |-> <<>>, ran |-> FALSE]

\* res.status(status).json(...): the response ends the task's code path
Send(s, status, error, shape, from) ==
    [s EXCEPT !.pc = "done",
              !.resp = Append(@, [status |-> status, error |-> error,
                                  shape |-> shape, from |-> from])]

\* await axios.get/post(...): the task suspends at pc until the call settles
Await(s, pc, api, arg, cred) ==
    [s EXCEPT !.pc = pc,
              !.calls = Append(@, [api |-> api, arg |-> arg, cred |-> cred, out |-> Pending])]

\* the awaited call settles with out
Settle(s, out) == [s EXCEPT !.calls[Len(s.calls)].out = out]

----------------------------------------------------------------------------
\* authenticatePiRequest

\* a check that accepts any scheme that comes with a credential
StartsWithAnyScheme(authHeader) == Len(authHeader) >= 2

\* authHeader?.startsWith('Bearer ')
StartsWithBearer(authHeader) == Len(authHeader) >= 2 /\ authHeader[1] = "Bearer"

\* authHeader.split(' ')[1]
AccessToken(authHeader) == authHeader[2]

\* a catch block that asks the identity check again
AuthCatchRetry(v, s, error) ==
    Await(s, "auth", "me", AccessToken(s.req.authorization), "Bearer")

\* a catch block that logs and sends nothing
AuthCatchSilent(s, error) == [s EXCEPT !.pc = "done"]

\* catch (error) of authenticatePiRequest, src/server.js
AuthCatchServer(s, error) ==
    Send(s, StatusOr500(error), "Authentication failed", "error", "auth")

\* catch (error) of authenticatePiRequest, src/unnamed/part_000
AuthCatchPart(s, error) ==
    Send(s, StatusOr500(error),
         OrElse(ResponseMessage(error), "Authentication failed"), "error", "auth")

AuthCatch(v, s, error) ==
    IF v = "server.js" THEN AuthCatchServer(s, error) ELSE AuthCatchPart(s, error)

\* req.user = { uid: data.uid, ... }
Identity(data) == [attached |-> TRUE, uid |-> data.uid.v]

----------------------------------------------------------------------------
\* Operation handlers

\* the message of a handler's catch block
GenericMessage(route) ==
    CASE route = "balance" -> "Failed to fetch balance"
      [] route = "approve" -> "Payment approval failed"
      [] route = "complete" -> "Payment completion failed"
      [] OTHER -> "Failed to fetch payment details"

\* a balance lookup keyed by the caller's X-User-Uid header
BalanceUidFromHeader(s) == s.req.xUserUid

\* the uid of `${PI_API_URL}/accounts/${req.user.uid}/balance`
BalanceUid(s) == s.user.uid

\* POST /api/approve: the test in front of the 400 answer
ApproveInvalidServer(body) == Falsy(body.paymentId)

ApproveInvalidPart(body) == Falsy(body.paymentId) \/ body.paymentId.t # "string"

ApproveInvalid(v, body) ==
    IF v = "server.js" THEN ApproveInvalidServer(body) ELSE ApproveInvalidPart(body)

ApproveInvalidMessage(v) ==
    IF v = "server.js" THEN "Missing payment ID" ELSE "Invalid payment ID"

\* a completion check that forgets txid
CompleteInvalidNoTxid(body) == Falsy(body.paymentId)

\* POST /api/complete: !paymentId || !txid
CompleteInvalid(body) == Falsy(body.paymentId) \/ Falsy(body.txid)

\* a catch block that passes the upstream status on
OpCatchPassThrough(s, route, error) ==
    Send(s, StatusOr500(error), GenericMessage(route), "error", "handler")

\* catch (error) of the handlers of src/server.js
OpCatchServer(s, route, error) ==
    Send(s, 500, GenericMessage(route), "error", "handler")

\* catch (error) of the handlers of src/unnamed/part_000
OpCatchPart(s, route, error) ==
    Send(s, StatusOr500(error),
         OrElse(ResponseMessage(error), GenericMessage(route)), "error", "handler")

OpCatch(v, s, route, error) ==
    IF v = "server.js" THEN OpCatchServer(s, route, error) ELSE OpCatchPart(s, route, error)

\* a handler from its entry to its first await, or to its 400 answer
HandlerStart(v, s0) ==
    LET s == [s0 EXCEPT !.ran = TRUE]
        route == RouteOf(v, s.req.method, s.req.path)
        body == s.req.body
    IN  CASE route = "balance" ->
                Await(s, "handler", "balance", BalanceUid(s), "Key")
          [] route = "approve" ->
                IF ApproveInvalid(v, body)
                THEN Send(s, 400, ApproveInvalidMessage(v), "error", "handler")
                ELSE Await(s, "handler", "approve", body.paymentId.v, "Key")
          [] route = "complete" ->
                IF CompleteInvalid(body)
                THEN Send(s, 400, "Missing payment ID or transaction ID", "error", "handler")
                ELSE Await(s, "handler", "complete", body.paymentId.v, "Key")
          [] OTHER ->
                Await(s, "handler", "payment", s.req.path[3], "Key")

\* a handler from the settling of its upstream call to its answer
HandlerResume(v, s, out) ==
    LET route == RouteOf(v, s.req.method, s.req.path) IN
    IF out.kind # "ok" THEN OpCatch(v, s, route, AxiosError(out))
    ELSE IF out.isNull THEN OpCatch(v, s, route, TypeError)
    ELSE Send(s, 200, "", route, "handler")

\* authenticatePiRequest from its entry to its first await, or to its 401 answer
AuthStart(s) ==
    IF ~StartsWithBearer(s.req.authorization)
    THEN Send(s, 401, "Authorization header required", "error", "auth")
    ELSE Await(s, "auth", "me", AccessToken(s.req.authorization), "Bearer")

\* authenticatePiRequest from the settling of GET /me to its answer or to next()
AuthResume(v, s, out) ==
    IF out.kind # "ok" THEN AuthCatch(v, s, AxiosError(out))
    ELSE IF out.isNull THEN AuthCatch(v, s, TypeError)
    ELSE IF Falsy(out.uid) THEN Send(s, 401, "Invalid authentication token", "error", "auth")
    ELSE HandlerStart(v, [s EXCEPT !.user = Identity(out)])

----------------------------------------------------------------------------
\* The middleware chain in front of the routes

\* app.use('/api/', apiLimiter)
UnderApi(path) == Len(path) >= 1 /\ path[1] = "api"

\* a limiter that rejects the request that reaches max
RateLimitedAtMax(current) == current >= max

\* apiLimiter: current is the hit count including this request
RateLimited(current) == current > max

\* the requests apiLimiter counts: the ones cors and express.json let through
Counted(rq) == rq.method # "OPTIONS" /\ rq.body.ok /\ UnderApi(rq.path)

\* a dispatch with authenticatePiRequest in front of every route but health
RouterAuthEverywhere(v, s) ==
    IF RouteOf(v, s.req.method, s.req.path) = "health"
    THEN Send(s, 200, "", "operational", "health")
    ELSE AuthStart(s)

\* the route dispatch: the matching registration, else the 404 handler
Router(v, s) ==
    LET route == RouteOf(v, s.req.method, s.req.path) IN
    IF route = "none" THEN Send(s, 404, "Endpoint not found", "error", "notFound")
    ELSE IF route = "health" THEN Send(s, 200, "", "operational", "health")
    ELSE AuthStart(s)

\* the whole chain, for a request arriving when the limiter's count becomes current
App(v, s, current) ==
    IF s.req.method = "OPTIONS" THEN Send(s, 204, "", "preflight", "cors")
    ELSE IF ~s.req.body.ok THEN Send(s, 500, "Internal server error", "error", "errorHandler")
    ELSE IF UnderApi(s.req.path) /\ RateLimited(current)
        THEN Send(s, 429, "Too many requests from this IP, please try again later",
                  "error", "apiLimiter")
    ELSE Router(v, s)

----------------------------------------------------------------------------
\* Actions

Init ==
    /\ variant \in Variants
    /\ hits = 0
    /\ task = [t \in Tasks |-> Idle]

\* a request arrives and runs up to its first await or its answer
Receive(t, rq, cap) ==
    /\ task[t].pc = "idle"
    /\ Counted(rq) => hits < cap
    /\ hits' = IF Counted(rq) THEN hits + 1 ELSE hits
    /\ task' = [task EXCEPT ![t] = App(variant, [Idle EXCEPT !.req = rq], hits')]
    /\ UNCHANGED variant

\* GET /me settles
MeSettles(t, out) ==
    /\ task[t].pc = "auth"
    /\ task' = [task EXCEPT ![t] = AuthResume(variant, Settle(task[t], out), out)]
    /\ UNCHANGED <<variant, hits>>

\* the operation's upstream call settles
OpSettles(t, out) ==
    /\ task[t].pc = "handler"
    /\ task' = [task EXCEPT ![t] = HandlerResume(variant, Settle(task[t], out), out)]
    /\ UNCHANGED <<variant, hits>>

\* the answered request is over; the task serves the next one
Close(t) ==
    /\ task[t].pc = "done"
    /\ task' = [task EXCEPT ![t] = Idle]
    /\ UNCHANGED <<variant, hits>>

\* apiLimiter: the window (windowMs) ends
WindowReset ==
    /\ hits > 0
    /\ hits' = 0
    /\ UNCHANGED <<variant, task>>

Step(t, cap) ==
    \/ \E rq \in Requests : Receive(t, rq, cap)
    \/ \E out \in MeOutcomes : MeSettles(t, out)
    \/ \E out \in OpOutcomes : OpSettles(t, out)
    \/ Close(t)

\* concurrent requests; the limiter's count stays below its maximum
Next == (\E t \in Tasks : Step(t, MaxHits)) \/ WindowReset

Spec == Init /\ [][Next]_vars

\* one request at a time; the limiter's count can pass its maximum
SeqNext == Step(SeqTask, SeqCap) \/ WindowReset

SeqSpec == Init /\ [][SeqNext]_vars

\* every upstream call eventually settles
Fairness(t) ==
    /\ WF_vars(\E out \in MeOutcomes : MeSettles(t, out))
    /\ WF_vars(\E out \in OpOutcomes : OpSettles(t, out))

FairSpec == Spec /\ \A t \in Tasks : Fairness(t)

FairSeqSpec == SeqSpec /\ Fairness(SeqTask)

----------------------------------------------------------------------------
\* Vocabulary of the properties

Route(t) == RouteOf(variant, task[t].req.method, task[t].req.path)

Done(t) == task[t].pc = "done"

\* the request's Authorization header is "Bearer <token>"
PresentsBearer(rq) == \E tok \in Tokens : rq.authorization = <<"Bearer", tok>>

\* the one response of a task that is done
Answer(t) == task[t].resp[1]

Answered(t, status, error) ==
    /\ Len(task[t].resp) = 1
    /\ Answer(t).status = status
    /\ Answer(t).error = error

Failed(out) == out.kind \in {"err", "neterr"}

OperationApis == {"balance", "approve", "complete", "payment"}

\* the step in which task t receives a request
Arrives(t) == task[t].pc = "idle" /\ task'[t].pc # "idle"

----------------------------------------------------------------------------
\* C1 as stated: every request to a protected route whose Authorization header is
\* absent or is not "Bearer <token>" is answered 401 "Authorization header
\* required" and makes no upstream call.
C1_Original ==
    \A t \in Tasks :
        (Route(t) \in Protected /\ ~PresentsBearer(task[t].req)) =>
            /\ task[t].calls = <<>>
            /\ Done(t) => Answered(t, 401, "Authorization header required")

\* C1 as amended: a request to a protected route without "Bearer <token>" never
\* makes an upstream call; it is answered 401 "Authorization header required"
\* when express.json parsed its body and the rate limiter's count, this request
\* included, is at most max; it is answered 500 by the error handler when
\* express.json failed, and 429 when the count is above max.
C1_Amended ==
    [][ \A t \in Tasks :
            (Route(t)' \in Protected /\ ~PresentsBearer(task'[t].req)) =>
                /\ task'[t].calls = <<>>
                /\ Arrives(t) =>
                    /\ Done(t)'
                    /\ IF ~task'[t].req.body.ok
                         THEN Answered(t, 500, "Internal server error")'
                       ELSE IF hits' > max
                         THEN Answer(t)'.status = 429 /\ Len(task'[t].resp) = 1
                       ELSE Answered(t, 401, "Authorization header required")'
      ]_vars

\* C1 witness: a request with a Basic credential to a protected route was
\* answered 401 by authenticatePiRequest with no upstream call.
C1_Witness ==
    \E t \in Tasks :
        /\ Done(t)
        /\ Route(t) \in Protected
        /\ task[t].req.authorization = <<"Basic", "abc">>
        /\ Answered(t, 401, "Authorization header required")
        /\ Answer(t).from = "auth"
        /\ task[t].calls = <<>>

----------------------------------------------------------------------------
\* C2: when the upstream identity check (GET /me) fails, the response status is
\* the upstream status, or 500 when there is no upstream response, the request
\* is over with that one response, and no operation call was made.
C2_AuthFailureStatus ==
    \A t \in Tasks :
        (Len(task[t].calls) >= 1 /\ task[t].calls[1].api = "me"
            /\ Failed(task[t].calls[1].out)) =>
            /\ Done(t)
            /\ Len(task[t].calls) = 1
            /\ Len(task[t].resp) = 1
            /\ Answer(t).status = IF task[t].calls[1].out.kind = "err"
                                    THEN task[t].calls[1].out.status ELSE 500
            /\ ~task[t].ran

\* C2 witness: the identity check answered 401 and the caller received 401.
C2_Witness ==
    \E t \in Tasks :
        /\ Done(t)
        /\ Len(task[t].calls) = 1
        /\ task[t].calls[1].out.kind = "err"
        /\ task[t].calls[1].out.status = 401
        /\ Len(task[t].resp) = 1
        /\ Answer(t).status = 401

----------------------------------------------------------------------------
\* C3: a handler of a protected route runs only after the identity check of the
\* same request returned a non-empty uid and req.user was built from it; and
\* when the identity check succeeds without a user identifier the request ends
\* with 401 "Invalid authentication token" and the handler never runs.
C3_IdentityBeforeHandler ==
    \A t \in Tasks :
        /\ (task[t].ran \/ task[t].pc = "handler") =>
            /\ Route(t) \in Protected
            /\ task[t].user.attached
            /\ task[t].user.uid # ""
            /\ task[t].calls[1].api = "me"
            /\ task[t].calls[1].out = Ok(Str(task[t].user.uid))
        /\ (Len(task[t].calls) >= 1 /\ task[t].calls[1].out.kind = "ok"
                /\ (task[t].calls[1].out.isNull \/ Falsy(task[t].calls[1].out.uid))) =>
            /\ Done(t)
            /\ Answered(t, 401, "Invalid authentication token")
            /\ ~task[t].ran

----------------------------------------------------------------------------
\* C4: the uid of a request's upstream balance call is the uid its own identity
\* check returned, whatever the X-User-Uid header says and whatever other
\* requests are in flight.
C4_BalanceUidIsVerified ==
    \A t \in Tasks :
        \A i \in DOMAIN task[t].calls :
            task[t].calls[i].api = "balance" =>
                /\ i = 2
                /\ task[t].calls[1].api = "me"
                /\ task[t].calls[1].out.kind = "ok"
                /\ task[t].calls[i].arg = task[t].calls[1].out.uid.v
                /\ task[t].calls[i].cred = "Key"

\* C4 witness: two balance requests are in flight, verified as different users,
\* each carrying the other user's uid in its X-User-Uid header.
C4_Witness ==
    \E t, u \in Tasks :
        /\ t # u
        /\ task[t].pc = "handler" /\ task[u].pc = "handler"
        /\ Len(task[t].calls) = 2 /\ Len(task[u].calls) = 2
        /\ task[t].calls[2].api = "balance" /\ task[u].calls[2].api = "balance"
        /\ task[t].calls[2].arg = "u1" /\ task[u].calls[2].arg = "u2"
        /\ task[t].req.xUserUid = "u2" /\ task[u].req.xUserUid = "u1"

----------------------------------------------------------------------------
\* the request misses a field its route requires
MissingField(t) ==
    /\ task[t].req.body.ok
    /\ \/ Route(t) = "approve" /\ task[t].req.body.paymentId = Undefined
       \/ Route(t) = "complete" /\ (task[t].req.body.paymentId = Undefined
                                    \/ task[t].req.body.txid = Undefined)

InvalidInputMessage(t) ==
    IF Route(t) = "approve" THEN ApproveInvalidMessage(variant)
    ELSE "Missing payment ID or transaction ID"

\* C5 as stated: a POST /api/approve without paymentId, or a POST /api/complete
\* without paymentId or txid, makes no upstream call at all, the validation
\* coming before any outbound call, and is answered 400 with the handler's
\* invalid-input message (read for the requests that get as far as the handler).
C5_Original ==
    \A t \in Tasks :
        MissingField(t) =>
            /\ task[t].calls = <<>>
            /\ task[t].ran => Done(t) /\ Answered(t, 400, InvalidInputMessage(t))

\* C5 as amended: such a request never makes an operation call; once its
\* handler runs, which is after the identity check of the request succeeded,
\* it is answered 400 with the invalid-input message, and the identity check
\* (GET /me) is the one upstream call it made.
C5_Amended ==
    \A t \in Tasks :
        MissingField(t) =>
            /\ \A i \in DOMAIN task[t].calls : task[t].calls[i].api = "me"
            /\ Len(task[t].calls) <= 1
            /\ task[t].ran =>
                /\ Done(t)
                /\ Answered(t, 400, InvalidInputMessage(t))
                /\ Len(task[t].calls) = 1
                /\ task[t].calls[1].out.kind = "ok"
            /\ (Done(t) /\ Answer(t).status = 400) => task[t].ran

\* C5 witness: POST /api/complete with paymentId and no txid, verified, answered
\* 400 after the identity check and nothing else.
C5_Witness ==
    \E t \in Tasks :
        /\ Done(t)
        /\ Route(t) = "complete"
        /\ task[t].req.body.paymentId = Str("p1")
        /\ task[t].req.body.txid = Undefined
        /\ Answered(t, 400, "Missing payment ID or transaction ID")
        /\ Len(task[t].calls) = 1
        /\ task[t].calls[1].api = "me"

----------------------------------------------------------------------------
\* the operation call of the request failed
OperationFailed(t) ==
    /\ Len(task[t].calls) = 2
    /\ task[t].calls[2].api \in OperationApis
    /\ Failed(task[t].calls[2].out)

\* C6 as stated: when the operation's upstream call fails, the response carries
\* the handler's generic message and the upstream status, or 500 when there is
\* no upstream response.
C6_Original ==
    \A t \in Tasks :
        OperationFailed(t) =>
            /\ Done(t)
            /\ Answered(t, IF task[t].calls[2].out.kind = "err"
                             THEN task[t].calls[2].out.status ELSE 500,
                        GenericMessage(Route(t)))

\* C6 as amended: when the operation's upstream call fails the request ends with
\* one response: in src/server.js always status 500 with the handler's generic
\* message; in src/unnamed/part_000 the upstream status (500 when there is no
\* upstream response) with the upstream message when there is one and the
\* handler's generic message otherwise.
C6_Amended ==
    \A t \in Tasks :
        OperationFailed(t) =>
            LET out == task[t].calls[2].out IN
            /\ Done(t)
            /\ Answer(t).from = "handler"
            /\ IF variant = "server.js"
                 THEN Answered(t, 500, GenericMessage(Route(t)))
                 ELSE Answered(t, IF out.kind = "err" THEN out.status ELSE 500,
                               IF out.kind = "err" /\ out.message # Undefined
                                 THEN out.message.v ELSE GenericMessage(Route(t)))

\* C6 witness: under src/server.js the approve call was answered 503 upstream
\* and the caller received 500 "Payment approval failed".
C6_Witness ==
    \E t \in Tasks :
        /\ variant = "server.js"
        /\ Done(t)
        /\ Route(t) = "approve"
        /\ OperationFailed(t)
        /\ task[t].calls[2].out.status = 503
        /\ Answered(t, 500, "Payment approval failed")

----------------------------------------------------------------------------
IsHealth(rq) == rq.method = "GET" /\ rq.path = <<"api", "health">>

----------------------------------------------------------------------------
\* C8 as stated: a request that matches no registered route is answered 404
\* "Endpoint not found", for any method and any body, and makes no upstream call.
C8_Original ==
    \A t \in Tasks :
        (task[t].pc # "idle" /\ Route(t) = "none") =>
            /\ task[t].calls = <<>>
            /\ Done(t) => Answered(t, 404, "Endpoint not found")

\* C8 as amended: a request that matches no registered route makes no upstream
\* call and is answered at once: 204 by cors when its method is OPTIONS, else
\* 500 by the error handler when express.json failed on its body, else 429 when
\* its path is under /api/ and the rate limiter's count is above max, and 404
\* "Endpoint not found" in every other case.
C8_Amended ==
    [][ \A t \in Tasks :
            (Arrives(t) /\ Route(t)' = "none") =>
                /\ task'[t].calls = <<>>
                /\ Done(t)'
                /\ Len(task'[t].resp) = 1
                /\ IF task'[t].req.method = "OPTIONS"
                     THEN Answer(t)'.status = 204
                   ELSE IF ~task'[t].req.body.ok
                     THEN Answered(t, 500, "Internal server error")'
                   ELSE IF task'[t].req.path[1] = "api" /\ hits' > max
                     THEN Answer(t)'.status = 429
                   ELSE Answered(t, 404, "Endpoint not found")'
      ]_vars

\* C8 witness: a POST to an unregistered path under /api/ was answered 404.
C8_Witness ==
    \E t \in Tasks :
        /\ Done(t)
        /\ task[t].req.method = "POST"
        /\ task[t].req.path = <<"api", "nope">>
        /\ Answered(t, 404, "Endpoint not found")
        /\ Answer(t).from = "notFound"
        /\ task[t].calls = <<>>

----------------------------------------------------------------------------
\* C9: a request makes at most two upstream calls, the identity check first and
\* then at most one operation call, each made only after the one before it
\* succeeded; a failed call is the last call of its request, which is over with
\* one response.
C9_NoRetries ==
    \A t \in Tasks :
        LET calls == task[t].calls IN
        /\ Len(calls) <= 2
        /\ Len(calls) >= 1 => calls[1].api = "me"
        /\ Len(calls) = 2 => /\ calls[2].api \in OperationApis
                             /\ calls[1].out.kind = "ok"
        /\ \A i \in DOMAIN calls :
            /\ calls[i].out = Pending => i = Len(calls) /\ ~Done(t)
            /\ Failed(calls[i].out) =>
                /\ i = Len(calls)
                /\ Done(t)
                /\ Len(task[t].resp) = 1

\* C9 witness: a request made the identity check and then its operation call,
\* the operation call failed, and the request was answered.
C9_Witness ==
    \E t \in Tasks :
        /\ Done(t)
        /\ Len(task[t].calls) = 2
        /\ task[t].calls[1].api = "me"
        /\ task[t].calls[2].api = "complete"
        /\ task[t].calls[2].out = NetErr
        /\ Len(task[t].resp) = 1

----------------------------------------------------------------------------
\* C10: a request has no response while it is in flight and exactly one once it
\* is over, and, every upstream call settling eventually, a request waiting for
\* the identity check or for its operation call is eventually over.
C10_ExactlyOneResponse ==
    /\ [](\A t \in Tasks :
            /\ Len(task[t].resp) <= 1
            /\ Done(t) <=> Len(task[t].resp) = 1)
    /\ \A t \in Tasks : (task[t].pc = "auth") ~> Done(t)
    /\ \A t \in Tasks : (task[t].pc = "handler") ~> Done(t)

\* C10 witness: a POST /api/complete went through the identity check and the
\* operation call, the call's data was null, and the request has its one
\* response, sent by the handler's catch block.
C10_Witness ==
    \E t \in Tasks :
        /\ Done(t)
        /\ Route(t) = "complete"
        /\ Len(task[t].calls) = 2
        /\ task[t].calls[2].out = OkNull
        /\ Len(task[t].resp) = 1
        /\ Answer(t).status = 500

====
